---- MODULE Spec2Model ----
(***************************************************************************)
(* Model of the sakura-rasa inference server: the per-client sliding       *)
(* window admission control (utils/throttle.py), the route handlers behind *)
(* it (main.py, routers/generate.py), the retrying backend client         *)
(* (utils/http_client.py) and the stages of create_image with the provider *)
(* table (services/ai_provider.py) and the audit log (services/logger.py). *)
(***************************************************************************)
EXTENDS Integers, Sequences, FiniteSets, TLC

\* ------------------------------------------------------------------ bounds

\* Number of clock steps the model explores.
MaxTicks == 3

\* Longest image, in bytes, that is stored.
MaxLen == 3

\* ------------------------------------------------------- program constants

\* The configured ceiling: the model runs the server with THROTTLE_RPM=2.
requests_per_minute == 2

\* throttle.py: the width of the trailing window, in seconds.
WindowSeconds == 60

\* throttle.py: self.cleanup_interval
cleanup_interval == 60

\* http_client.py: self.max_retries
max_retries == 3

\* http_client.py: self.retry_delay
retry_delay == 1

\* ------------------------------------------------------------ value spaces

\* Amounts by which time.time() advances between two steps of the model.
ClockSteps == {30}

\* Last value of the clock.
MaxClock == 30 * MaxTicks

NoValue == "none"

\* Values of the X-User-ID header: absent, or a declared user.
HeaderValues == {NoValue, "u1"}

\* request.client: the peer's host address.
ClientHosts == {"h1"}

Paths == {"/", "/health", "/api/v1/create-image"}

\* The requests that can be in flight at the same time.
RequestIds == {1, 2}

VARIABLES
    clock,          \* time.time()
    requests,       \* ThrottleMiddleware.requests: identity -> list of timestamps
    last_cleanup,   \* ThrottleMiddleware.last_cleanup
    req,            \* the requests in flight: RequestIds -> record
    admitted,       \* history: identity -> every timestamp ever recorded for it
    last            \* history: what the last step of the server did: the
                    \* admission decision of a dispatch, or a handler's response

VARIABLE
    call            \* the call of HTTPClient._request under way

VARIABLE
    job             \* the call of create_image under way

VARIABLE
    meter           \* two requests put to the admission check at one instant

VARIABLE
    roundtrip       \* one image stored by save_image from both kinds of result

VARIABLE
    disk            \* the media directory and the requests that write to it

serverVars == <<clock, requests, last_cleanup, req, admitted, last>>

\* The variables of the specifications that look at one function each.
restVars == <<meter, roundtrip, disk>>

vars == <<serverVars, call, job, restVars>>

\* ------------------------------------------------------ ThrottleMiddleware

\* defaultdict(list): reading a missing key yields the empty list.
Lookup(reqs, user_id) ==
    IF user_id \in DOMAIN reqs THEN reqs[user_id] ELSE <<>>

\* self.requests[user_id] = value (creates the key when missing).
Store(reqs, user_id, value) ==
    [k \in (DOMAIN reqs) \cup {user_id} |-> IF k = user_id THEN value ELSE reqs[k]]

\* Mutant of RecentOnly: nothing ever expires.
RecentOnlyNeverExpires(times, current_time) == times

\* [req_time for req_time in times if req_time > minute_ago]
RecentOnly(times, current_time) ==
    LET minute_ago == current_time - WindowSeconds
    IN  SelectSeq(times, LAMBDA req_time : req_time > minute_ago)

\* Every timestamp of the map, whoever it was recorded for.
RECURSIVE AllTimes(_)
AllTimes(reqs) ==
    IF DOMAIN reqs = {} THEN <<>>
    ELSE LET k == CHOOSE x \in DOMAIN reqs : TRUE
         IN  reqs[k] \o AllTimes([x \in (DOMAIN reqs) \ {k} |-> reqs[x]])

\* Mutant of UserRequests: one window shared by all identities.
UserRequestsShared(reqs, user_id, current_time) ==
    RecentOnly(AllTimes(reqs), current_time)

\* _is_rate_limited, the list it keeps: user_requests.
UserRequests(reqs, user_id, current_time) ==
    RecentOnly(Lookup(reqs, user_id), current_time)

\* Mutant of IsRateLimited: the comparison is off by one.
IsRateLimitedOffByOne(reqs, user_id, current_time) ==
    Len(UserRequests(reqs, user_id, current_time)) > requests_per_minute

\* _is_rate_limited, its return value.
IsRateLimited(reqs, user_id, current_time) ==
    Len(UserRequests(reqs, user_id, current_time)) >= requests_per_minute

\* Mutant of CleanupOldEntries: the keys left empty are kept.
CleanupKeepsEmpty(reqs, current_time) ==
    [k \in DOMAIN reqs |-> RecentOnly(reqs[k], current_time)]

\* _cleanup_old_entries: prune every list, delete the keys left empty.
CleanupOldEntries(reqs, current_time) ==
    LET kept == {k \in DOMAIN reqs : RecentOnly(reqs[k], current_time) # <<>>}
    IN  [k \in kept |-> RecentOnly(reqs[k], current_time)]

\* dispatch, lines 27-28: the identity a request is counted under.
ClientId(q) == IF q.client # NoValue THEN q.client ELSE "unknown"

UserId(q) == IF q.header \notin {NoValue, ""} THEN q.header ELSE ClientId(q)

Identities == {UserId([header |-> h, client |-> c]) : h \in HeaderValues, c \in ClientHosts}

IdleRequest == [pc |-> "idle", status |-> 0]

\* Nothing observed: no decision taken, no response sent.
Nothing ==
    [decided |-> FALSE, user_id |-> NoValue, now |-> 0, counted |-> <<>>,
     prior |-> <<>>, allowed |-> FALSE,
     status |-> 0, maximum |-> 0, handled |-> FALSE, backend_calls |-> 0,
     provider_calls |-> 0, artifact_writes |-> 0]

\* The requests that can arrive.
Arrivals ==
    {[header |-> h, client |-> c] : h \in HeaderValues, c \in ClientHosts}

\* ------------------------------------------------------------ route handlers

\* main.py root() and health(): a static payload.
Probe == [Nothing EXCEPT !.status = 200, !.handled = TRUE]

\* What one create_image call meets: each image input, the three backend
\* calls, the provider and the artifact store.
CreateImageEnvs ==
    [user_image    : {"missing", "unreadable", "ok"},
     catalog_image : {"missing", "unreadable", "ok"},
     auth          : {"raised", "unauthorized", "ok"},
     credits       : {"raised", "forbidden", "no_credits", "ok"},
     provider      : {"config_error", "failed", "ok"},
     save          : {"network_error", "write_error", "ok"},
     webhook       : {"raised", "ok"}]

Ended(status, backend, provider, artifact) ==
    [Nothing EXCEPT !.status = status, !.handled = TRUE,
                       !.backend_calls = backend, !.provider_calls = provider,
                       !.artifact_writes = artifact]

\* create_image: the response and the calls made on the way to it.
CreateImage(env) ==
    IF env.user_image = "missing" THEN Ended(400, 0, 0, 0)
    ELSE IF env.user_image = "unreadable" THEN Ended(500, 0, 0, 0)
    ELSE IF env.catalog_image = "missing" THEN Ended(400, 0, 0, 0)
    ELSE IF env.catalog_image = "unreadable" THEN Ended(500, 0, 0, 0)
    ELSE IF env.auth = "raised" THEN Ended(503, 1, 0, 0)
    ELSE IF env.auth = "unauthorized" THEN Ended(401, 1, 0, 0)
    ELSE IF env.credits = "raised" THEN Ended(503, 2, 0, 0)
    ELSE IF env.credits \in {"forbidden", "no_credits"} THEN Ended(403, 2, 0, 0)
    ELSE IF env.provider = "config_error" THEN Ended(500, 2, 0, 0)
    ELSE IF env.provider = "failed" THEN Ended(500, 2, 1, 0)
    ELSE IF env.save = "network_error" THEN Ended(502, 2, 1, 0)
    ELSE IF env.save = "write_error" THEN Ended(500, 2, 1, 0)
    ELSE Ended(200, 3, 1, 1)

CreateImageOutcomes == {CreateImage(env) : env \in CreateImageEnvs}

\* The responses the route of `path` can produce.
RouteOutcomes(path) ==
    IF path = "/api/v1/create-image" THEN CreateImageOutcomes ELSE {Probe}

\* -------------------------------------------------------------- HTTPClient

\* The three backend operations, by the endpoint they call.
Endpoints ==
    {"/api/v1/auth/verify/", "/api/v1/credits/check/", "/api/v1/inference/webhook/"}

\* The HTTP statuses the backend answers with.
Statuses == {200, 201, 400, 401, 403, 404, 500}

\* The bodies a response can carry: a JSON object with a "detail" key, with
\* an "error" key only, with neither; a JSON value that is no object (an
\* array, a string, null); text that is no JSON; no body; a body whose
\* transfer breaks off.
BodyKinds ==
    {"json_detail", "json_error", "json_empty", "json_array",
     "text", "no_text", "cut"}

\* What one attempt meets: an exception before any response, or a response.
AttemptOutcomes ==
    [exc : {"ClientError", "TimeoutError"}, status : {0}, body : {NoValue}]
        \cup [exc : {NoValue}, status : Statuses, body : BodyKinds]

\* A key the dict does not hold.
Absent == "absent"

NoMessage == [prefix |-> Absent, arg |-> Absent]

\* A dict with the keys the client and its callers read.
Dict(detail, error) ==
    [is_dict |-> TRUE, error |-> error, detail |-> detail, status |-> 0,
     message |-> NoMessage]

\* A JSON value that is no object.
NotADict ==
    [is_dict |-> FALSE, error |-> Absent, detail |-> Absent, status |-> 0,
     message |-> NoMessage]

Returns(value) == [exc |-> NoValue, value |-> value]

Raises(exc) == [exc |-> exc, value |-> NotADict]

\* _request, lines 38-43: response.json(), or on any failure of it
\* response.text() wrapped as {"detail": text}, {} when the text is empty.
ReadBody(body) ==
    CASE body = "json_detail" -> Returns(Dict("backend detail", Absent))
      [] body = "json_error"  -> Returns(Dict(Absent, "backend error"))
      [] body = "json_empty"  -> Returns(Dict(Absent, Absent))
      [] body = "json_array"  -> Returns(NotADict)
      [] body = "text"        -> Returns(Dict("response text", Absent))
      [] body = "no_text"     -> Returns(Dict(Absent, Absent))
      [] body = "cut"         -> Raises("ClientError")

\* response_data.get("detail", response_data.get("error", default))
ErrorMsg(data, default) ==
    IF data.detail # Absent THEN data.detail
    ELSE IF data.error # Absent THEN data.error
    ELSE default

\* The decision dict built for a status other than 200.
Decision(error, detail, status, prefix, arg) ==
    [is_dict |-> TRUE, error |-> error, detail |-> detail, status |-> status,
     message |-> [prefix |-> prefix, arg |-> arg]]

\* A decision whose message is built from the backend's detail or error.
FromBody(data, error, status, prefix, default) ==
    IF ~data.is_dict THEN Raises("AttributeError")
    ELSE Returns(Decision(error, ErrorMsg(data, default), status, prefix,
                          ErrorMsg(data, default)))

\* _request, lines 45-85: the branch on response.status.
Classify(status, data, endpoint) ==
    IF status = 200 THEN Returns(data)
    ELSE IF status = 401 THEN
        FromBody(data, "Unauthorized", 401, "Authentication failed",
                 "Authentication failed")
    ELSE IF status = 403 THEN
        FromBody(data, "Forbidden", 403, "Insufficient credits or access denied",
                 "Access forbidden")
    ELSE IF status = 404 THEN
        Returns(Decision("Not Found", endpoint, 404, "Backend endpoint not found",
                         endpoint))
    ELSE IF status >= 500 THEN
        FromBody(data, "Backend Server Error", status, "Backend server error",
                 "Server error")
    ELSE
        FromBody(data, "Backend error", status, "Backend returned error",
                 "Unknown error")

\* _request, lines 33-85: one pass through the try block.
TryOnce(outcome, endpoint) ==
    IF outcome.exc # NoValue THEN Raises(outcome.exc)
    ELSE LET read == ReadBody(outcome.body)
         IN  IF read.exc # NoValue THEN read
             ELSE Classify(outcome.status, read.value, endpoint)

\* _request, lines 86-100: the except clause that takes the exception.
Handler(exc) ==
    IF exc = "ClientError" THEN "Network error"
    ELSE IF exc = "TimeoutError" THEN "Request timeout"
    ELSE "Request failed"

\* Mutant of Backoff: the delay does not grow.
BackoffConstant(attempt) == retry_delay

\* Mutant of Backoff: the first delay is already doubled.
BackoffFromTwo(attempt) == retry_delay * (2 ^ (attempt + 1))

\* self.retry_delay * (2 ** attempt)
Backoff(attempt) == retry_delay * (2 ^ attempt)

IdleCall ==
    [pc |-> "idle", endpoint |-> NoValue, attempt |-> 0, outcomes |-> <<>>,
     sleeps |-> <<>>, result |-> NotADict, last_error |-> NoValue]

InitClient == call = IdleCall

\* verify_auth, check_credits, send_webhook: enter _request.
Request ==
    /\ call.pc = "idle"
    /\ \E endpoint \in Endpoints :
         call' = [IdleCall EXCEPT !.pc = "attempt", !.endpoint = endpoint]
    /\ UNCHANGED <<serverVars, job, restVars>>

\* One iteration of `for attempt in range(self.max_retries)` up to its
\* return, its raise or the start of its sleep.  The `raise` after the loop
\* (line 102) is never reached: the last iteration returns or raises.
Attempt ==
    /\ call.pc = "attempt"
    /\ \E outcome \in AttemptOutcomes :
         LET tried == TryOnce(outcome, call.endpoint)
             seen  == [call EXCEPT !.outcomes = Append(@, outcome)]
         IN  call' =
               IF tried.exc = NoValue
               THEN [seen EXCEPT !.pc = "returned", !.result = tried.value]
               ELSE IF call.attempt = max_retries - 1
               THEN [seen EXCEPT !.pc = "raised",
                                 !.last_error = Handler(tried.exc)]
               ELSE [seen EXCEPT !.pc = "sleeping",
                                 !.last_error = Handler(tried.exc),
                                 !.sleeps = Append(@, Backoff(call.attempt))]
    /\ UNCHANGED <<serverVars, job, restVars>>

\* asyncio.sleep is over: the next iteration of the loop.
Wake ==
    /\ call.pc = "sleeping"
    /\ call' = [call EXCEPT !.pc = "attempt", !.attempt = @ + 1]
    /\ UNCHANGED <<serverVars, job, restVars>>

NextClient ==
    \/ Request
    \/ Attempt
    \/ Wake

\* ------------------------------------------------------------------ server

InitServer ==
    /\ clock = 0
    /\ requests = << >>
    /\ last_cleanup = 0
    /\ req = [r \in RequestIds |-> IdleRequest]
    /\ admitted = [i \in Identities |-> <<>>]
    /\ last = Nothing

\* time passes
Tick ==
    /\ \E d \in ClockSteps :
         /\ clock + d <= MaxClock
         /\ clock' = clock + d
    /\ UNCHANGED <<requests, last_cleanup, req, admitted, last, call, job, restVars>>

\* Mutant of Gate: the limited request is not stopped.
GateFallsThrough(q, limited) ==
    IF limited
    THEN [IdleRequest EXCEPT !.pc = "call_next", !.status = 429]
    ELSE [IdleRequest EXCEPT !.pc = "call_next"]

\* dispatch, lines 31-41: a limited request is answered by the raised
\* HTTPException, any other goes on to call_next.
Gate(q, limited) ==
    IF limited
    THEN [IdleRequest EXCEPT !.status = 429]
    ELSE [IdleRequest EXCEPT !.pc = "call_next"]

\* dispatch, lines 32-35: the HTTPException raised for a limited request.
TooManyRequests ==
    [Nothing EXCEPT !.status = 429, !.maximum = requests_per_minute]

\* Mutant of Dispatch: a rejected request is recorded too.
DispatchRecordsRejected(r) ==
    /\ req[r].pc = "idle"
    /\ \E q \in Arrivals :
       LET current_time == clock
           sweep   == current_time - last_cleanup > cleanup_interval
           swept   == IF sweep THEN CleanupOldEntries(requests, current_time)
                               ELSE requests
           user_id == UserId(q)
           limited == IsRateLimited(swept, user_id, current_time)
           counted == UserRequests(swept, user_id, current_time)
           pruned  == Store(swept, user_id, counted)
       IN  /\ last_cleanup' = IF sweep THEN current_time ELSE last_cleanup
           /\ requests' = Store(pruned, user_id, Append(counted, current_time))
           /\ req' = [req EXCEPT ![r] = Gate(q, limited)]
           /\ admitted' = IF limited THEN admitted
                          ELSE [admitted EXCEPT ![user_id] = Append(@, current_time)]
           /\ last' = [(IF limited THEN TooManyRequests ELSE Nothing) EXCEPT
                         !.decided = TRUE, !.user_id = user_id,
                         !.now = current_time, !.counted = counted,
                         !.prior = admitted[user_id], !.allowed = ~limited]
    /\ UNCHANGED <<clock, call, job, restVars>>

\* ThrottleMiddleware.dispatch up to `await call_next(request)`: no await
\* separates the reading of the clock, the check and the append.
Dispatch(r) ==
    /\ req[r].pc = "idle"
    /\ \E q \in Arrivals :
       LET current_time == clock
           sweep   == current_time - last_cleanup > cleanup_interval
           swept   == IF sweep THEN CleanupOldEntries(requests, current_time)
                               ELSE requests
           user_id == UserId(q)
           limited == IsRateLimited(swept, user_id, current_time)
           counted == UserRequests(swept, user_id, current_time)
           pruned  == Store(swept, user_id, counted)
       IN  /\ last_cleanup' = IF sweep THEN current_time ELSE last_cleanup
           /\ requests' = IF limited THEN pruned
                          ELSE Store(pruned, user_id, Append(counted, current_time))
           /\ req' = [req EXCEPT ![r] = Gate(q, limited)]
           /\ admitted' = IF limited THEN admitted
                          ELSE [admitted EXCEPT ![user_id] = Append(@, current_time)]
           /\ last' = [(IF limited THEN TooManyRequests ELSE Nothing) EXCEPT
                         !.decided = TRUE, !.user_id = user_id,
                         !.now = current_time, !.counted = counted,
                         !.prior = admitted[user_id], !.allowed = ~limited]
    /\ UNCHANGED <<clock, call, job, restVars>>

\* dispatch, lines 41-42: the router takes the request to the handler of
\* its path, and the handler's response is returned.
CallNext(r) ==
    /\ req[r].pc = "call_next"
    /\ \E path \in Paths : \E out \in RouteOutcomes(path) :
         last' = out
    /\ req' = [req EXCEPT ![r] = IdleRequest]
    /\ UNCHANGED <<clock, requests, last_cleanup, admitted, call, job, restVars>>

\* ------------------------------------------------------------ create_image

\* What verify_auth, check_credits and send_webhook can give their caller:
\* the value one attempt of _request returns, or the exception raised when
\* the last attempt failed.
ClientResults(endpoint) ==
    {TryOnce(outcome, endpoint) : outcome \in
        {o \in AttemptOutcomes : TryOnce(o, endpoint).exc = NoValue}}
        \cup {Raises("Exception")}

\* No call made yet.
NotCalled == [exc |-> "not called", value |-> NotADict]

\* The form fields of a request: an uploaded file or none, a string or none.
Uploads == {NoValue, "upload"}

Urls == {NoValue, "http://img", "local/path"}

Forms ==
    [user_image : Uploads, user_image_url : Urls,
     catalog_image : Uploads, catalog_image_url : Urls]

\* What reading a source meets: the bytes, a response whose status is not
\* 200 (a missing file for a local path), a connection failure.
Fetches == {"ok", "bad_status", "ClientError"}

\* logger.log_request: the record written, and the level it is written at.
LogRequest(status, error) ==
    [status |-> status, error |-> error,
     level |-> IF error # Absent THEN "ERROR" ELSE "INFO"]

NoResponse ==
    [status_code |-> 0, status |-> Absent, image_url |-> Absent, latency_ms |-> 0]

\* The response FastAPI builds for a raised HTTPException.
HTTPException(status_code) == [NoResponse EXCEPT !.status_code = status_code]

\* GenerateResponse(status="success", image_url=..., latency_ms=...)
GenerateResponse(image_url, latency_ms) ==
    [status_code |-> 200, status |-> "success", image_url |-> image_url,
     latency_ms |-> latency_ms]

\* The body of a webhook not sent.
NoWebhook == [image_url |-> Absent, latency_ms |-> 0]

\* The environment not read yet.
NoConfig == [AI_PROVIDER |-> NoValue, api_key |-> FALSE]

NewJob ==
    [pc |-> "inputs", form |-> [f \in {"user_image", "user_image_url",
                                  "catalog_image", "catalog_image_url"} |-> NoValue],
     calls |-> <<>>, audit |-> <<>>, responses |-> <<>>,
     auth_result |-> NotCalled, credits_result |-> NotCalled,
     has_credits |-> Absent, webhook |-> NoWebhook,
     webhook_result |-> NotCalled, staging |-> NoValue, unlink |-> NoValue,
     config |-> NoConfig, generated |-> NoValue, fetch |-> NoValue,
     saved |-> NoValue, escaped |-> NoValue, tmp_files |-> {}, media |-> {}]

InitPipeline == job = NewJob

\* A stage's failure branch: log_request(..., "error", ..., error_msg), then
\* raise HTTPException, which `except HTTPException: raise` (lines 268-269)
\* lets through.
Fail(j, status_code, error_msg) ==
    [j EXCEPT !.pc = "done",
              !.audit = Append(@, LogRequest("error", error_msg)),
              !.responses = Append(@, HTTPException(status_code))]

\* Lines 112-115 and 124-127: raise HTTPException with nothing logged.
Reject(j, status_code) ==
    [j EXCEPT !.pc = "done",
              !.responses = Append(@, HTTPException(status_code))]

\* Mutant of Unexpected: the exception is answered but not logged.
UnexpectedUnlogged(j, exc) ==
    [j EXCEPT !.pc = "done", !.escaped = exc,
              !.responses = Append(@, HTTPException(500))]

\* Lines 270-278: any other exception is logged and answered with 500.
Unexpected(j, exc) ==
    [j EXCEPT !.pc = "done", !.escaped = exc,
              !.audit = Append(@, LogRequest("error", "Unexpected error")),
              !.responses = Append(@, HTTPException(500))]

\* download_image: the bytes for a 200, Exception for any other status, and
\* whatever the session raises.
DownloadImage(fetch) ==
    IF fetch = "ok" THEN "ok"
    ELSE IF fetch = "bad_status" THEN "Exception"
    ELSE fetch

\* read_file_to_bytes: Exception when the file does not exist.
ReadFileToBytes(fetch) == IF fetch = "ok" THEN "ok" ELSE "Exception"

\* get_image_data: by the type of the source.
GetImageData(source, fetch) ==
    IF source = "upload" THEN "ok"
    ELSE IF source = "http://img" THEN DownloadImage(fetch)
    ELSE ReadFileToBytes(fetch)

\* Lines 105-115 and 117-127: one side's image, from the file if there is
\* one, else from the URL, else missing.
ImageInput(file, url, fetch) ==
    IF file # NoValue THEN GetImageData(file, fetch)
    ELSE IF url # NoValue THEN GetImageData(url, fetch)
    ELSE "missing"

\* Lines 104-127.
Inputs(j, user_fetch, catalog_fetch) ==
    LET user    == ImageInput(j.form.user_image, j.form.user_image_url, user_fetch)
        catalog == ImageInput(j.form.catalog_image, j.form.catalog_image_url,
                              catalog_fetch)
    IN  IF user = "missing" THEN Reject(j, 400)
        ELSE IF user # "ok" THEN Unexpected(j, user)
        ELSE IF catalog = "missing" THEN Reject(j, 400)
        ELSE IF catalog # "ok" THEN Unexpected(j, catalog)
        ELSE [j EXCEPT !.pc = "auth"]

ResolveInputs ==
    /\ job.pc = "inputs"
    /\ \E form \in Forms, user_fetch \in Fetches, catalog_fetch \in Fetches :
         job' = Inputs([job EXCEPT !.form = form], user_fetch, catalog_fetch)
    /\ UNCHANGED <<serverVars, call, restVars>>

\* Line 141: the decisions of verify_auth that end the request with 401.
Unauthorized(auth_result) ==
    auth_result.status = 401 \/ auth_result.error = "Unauthorized"

\* Mutant of Auth: a backend that cannot be reached counts as a success.
AuthFailsOpen(j, result) ==
    IF result.exc # NoValue THEN [j EXCEPT !.pc = "credits"]
    ELSE IF ~result.value.is_dict THEN Unexpected(j, "AttributeError")
    ELSE IF Unauthorized(result.value) THEN Fail(j, 401, "Unauthorized")
    ELSE [j EXCEPT !.pc = "credits"]

\* Lines 129-148.  `.get` on a value that is no dict raises AttributeError,
\* which no handler of the stage takes.
Auth(j, result) ==
    IF result.exc # NoValue THEN
        Fail(j, 503, "Backend connection error during auth")
    ELSE IF ~result.value.is_dict THEN Unexpected(j, "AttributeError")
    ELSE IF Unauthorized(result.value) THEN Fail(j, 401, "Unauthorized")
    ELSE [j EXCEPT !.pc = "credits"]

VerifyAuth ==
    /\ job.pc = "auth"
    /\ \E result \in ClientResults("/api/v1/auth/verify/") :
         job' = Auth([job EXCEPT !.calls = Append(@, "verify_auth"),
                                 !.auth_result = result], result)
    /\ UNCHANGED <<serverVars, call, restVars>>

\* The "has_credits" key of the backend's answer: true, false, or no key.
HasCreditsValues == {"true", "false", Absent}

\* The dicts the client builds for a status other than 200 have no
\* "has_credits" key; a body returned as it came has the backend's.
HasCreditsKey(result, has_credits) ==
    IF result.exc = NoValue /\ result.value.is_dict
                           /\ result.value.message = NoMessage
    THEN has_credits ELSE Absent

\* Mutant of NoCredits: the has_credits key is not looked at.
NoCreditsIgnored(has_credits) == FALSE

\* Line 171: not credits_result.get("has_credits", False)
NoCredits(has_credits) == has_credits # "true"

\* Line 162.
Forbidden(credits_result) ==
    credits_result.status = 403 \/ credits_result.error = "Forbidden"

\* Lines 150-179.
Credits(j, result, has_credits) ==
    IF result.exc # NoValue THEN
        Fail(j, 503, "Backend connection error during credit check")
    ELSE IF ~result.value.is_dict THEN Unexpected(j, "AttributeError")
    ELSE IF Forbidden(result.value) THEN Fail(j, 403, "Insufficient credits")
    ELSE IF NoCredits(has_credits) THEN Fail(j, 403, "No credits")
    ELSE [j EXCEPT !.pc = "generate"]

CheckCredits ==
    /\ job.pc = "credits"
    /\ \E result \in ClientResults("/api/v1/credits/check/"),
          has_credits \in HasCreditsValues :
         LET key == HasCreditsKey(result, has_credits)
         IN  job' = Credits([job EXCEPT !.calls = Append(@, "check_credits"),
                                        !.credits_result = result,
                                        !.has_credits = key],
                            result, key)
    /\ UNCHANGED <<serverVars, call, restVars>>

\* The values of AI_PROVIDER, and whether the API key the named provider
\* reads (OPENAI_API_KEY, GOOGLE_API_KEY) is set.
ProviderNames == {"openai", "OpenAI", "gemini", "sora", "stability", "dalle"}

Configs == [AI_PROVIDER : ProviderNames, api_key : BOOLEAN]

\* A call that raised, where the value would have been a string.
Raised(exc) == [exc |-> exc, value |-> NoValue]

\* str.lower()
Lower(name) == IF name = "OpenAI" THEN "openai" ELSE name

\* get_ai_provider and the constructor it calls: the provider, or ValueError
\* for a name that is not in the table and for a missing API key.  The
\* classes of sora and stability have no constructor of their own.
GetAIProvider(config) ==
    LET provider_name == Lower(config.AI_PROVIDER)
    IN  IF provider_name \notin {"openai", "sora", "gemini", "stability"}
        THEN Raised("ValueError")
        ELSE IF provider_name \in {"openai", "gemini"} /\ ~config.api_key
        THEN Raised("ValueError")
        ELSE Returns(provider_name)

\* What the provider's service does with a request.
Generations == {"ok", "fails"}

\* generate_image of each provider: OpenAI returns the URL of the image,
\* Gemini a base64 data URL, both wrap every failure in Exception; sora and
\* stability raise NotImplementedError.
GenerateImage(provider, generation) ==
    IF provider \in {"sora", "stability"} THEN Raised("NotImplementedError")
    ELSE IF generation = "fails" THEN Raised("Exception")
    ELSE IF provider = "openai" THEN Returns("url")
    ELSE Returns("data_url")

\* How writing the two temporary files and removing them again goes.
Stagings == {"ok", "user_fails", "catalog_fails"}

Unlinks == {"ok", "user_fails", "catalog_fails"}

\* Lines 185-191: the temporary files that exist when staging is over.
Staged(staging) ==
    IF staging = "ok" THEN {"tmp_user", "tmp_catalog"}
    ELSE IF staging = "catalog_fails" THEN {"tmp_user"}
    ELSE {}

\* Lines 199-205: both unlinks in one try, whatever it raises is dropped.
Unlinked(files, unlink) ==
    IF unlink = "ok" THEN {}
    ELSE IF unlink = "user_fails" THEN files
    ELSE files \ {"tmp_user"}

\* Lines 206-221: the except clause that takes the exception.
GenerateHandler(exc) ==
    IF exc = "ValueError" THEN "Configuration error" ELSE "Image generation failed"

\* Lines 181-221.
GenerateStage(j, config, staging, generation, unlink) ==
    LET staged   == [j EXCEPT !.tmp_files = Staged(staging),
                              !.staging = staging]
        resolved == GetAIProvider(config)
        asked    == [staged EXCEPT !.calls = Append(@, "get_ai_provider"),
                                   !.config = config]
        released == [asked EXCEPT !.tmp_files = Unlinked(@, unlink),
                                  !.unlink = unlink]
        invoked  == [released EXCEPT !.calls = Append(@, "generate_image")]
        made     == GenerateImage(resolved.value, generation)
    IN  IF staging # "ok" THEN Fail(staged, 500, GenerateHandler("OSError"))
        ELSE IF resolved.exc # NoValue
        THEN Fail(released, 500, GenerateHandler(resolved.exc))
        ELSE IF made.exc # NoValue
        THEN Fail(invoked, 500, GenerateHandler(made.exc))
        ELSE [invoked EXCEPT !.pc = "persist", !.generated = made.value]

Generate ==
    /\ job.pc = "generate"
    /\ \E config \in Configs, staging \in Stagings,
          generation \in Generations, unlink \in Unlinks :
         job' = GenerateStage(job, config, staging, generation, unlink)
    /\ UNCHANGED <<serverVars, call, restVars>>

\* How decoding the base64 payload and writing the file go.
Decodes == {"ok", "fails"}

Writes == {"ok", "fails"}

\* save_image: a data URL is decoded and written, any other string is
\* downloaded and written.
SaveImage(image_url_or_data, fetch, decode, write) ==
    LET fetched == IF image_url_or_data = "data_url"
                   THEN (IF decode = "ok" THEN "ok" ELSE "binascii.Error")
                   ELSE DownloadImage(fetch)
    IN  IF fetched # "ok" THEN fetched
        ELSE IF write = "ok" THEN "ok" ELSE "OSError"

\* Lines 228-243: the except clause that takes the exception.
PersistHandler(exc) ==
    IF exc = "ClientError"
    THEN [status_code |-> 502, error_msg |-> "Network error downloading image"]
    ELSE [status_code |-> 500, error_msg |-> "Image save failed"]

\* f"/media/{filename}"
ImageUrl == "/media/user_catalog_time.png"

\* Lines 223-243.
PersistStage(j, fetch, decode, write) ==
    LET saved  == SaveImage(j.generated, fetch, decode, write)
        called == [j EXCEPT !.calls = Append(@, "save_image"),
                            !.fetch = IF j.generated = "url" THEN fetch ELSE NoValue,
                            !.saved = saved]
    IN  IF saved # "ok"
        THEN Fail(called, PersistHandler(saved).status_code,
                  PersistHandler(saved).error_msg)
        ELSE [called EXCEPT !.pc = "notify", !.media = {ImageUrl}]

Persist ==
    /\ job.pc = "persist"
    /\ \E fetch \in Fetches, decode \in Decodes, write \in Writes :
         job' = PersistStage(job, fetch, decode, write)
    /\ UNCHANGED <<serverVars, call, restVars>>

\* Mutant of WebhookWarning: a failed webhook is recorded as an error.
WebhookWarningAsError(j, result) ==
    IF result.exc # NoValue
    THEN [j EXCEPT !.audit = Append(@, LogRequest("error", "Webhook failed"))]
    ELSE j

\* Lines 247-257: whatever send_webhook raises is logged as a warning; what
\* it returns is not looked at.
WebhookWarning(j, result) ==
    IF result.exc # NoValue
    THEN [j EXCEPT !.audit = Append(@, LogRequest("warning", "Webhook failed"))]
    ELSE j

\* (time.time() - start_time) * 1000, on a clock that every call made so
\* far has advanced by one.
Elapsed(j) == Len(j.calls)

\* Lines 245-266.
NotifyStage(j, result) ==
    LET latency_ms == Elapsed(j)
        called == [j EXCEPT !.calls = Append(@, "send_webhook"),
                            !.webhook = [image_url |-> ImageUrl,
                                         latency_ms |-> latency_ms],
                            !.webhook_result = result]
        warned == WebhookWarning(called, result)
    IN  [warned EXCEPT !.pc = "done",
                       !.audit = Append(@, LogRequest("success", Absent)),
                       !.responses = Append(@, GenerateResponse(ImageUrl,
                                                                latency_ms))]

Notify ==
    /\ job.pc = "notify"
    /\ \E result \in ClientResults("/api/v1/inference/webhook/") :
         job' = NotifyStage(job, result)
    /\ UNCHANGED <<serverVars, call, restVars>>

NextPipeline ==
    \/ ResolveInputs
    \/ VerifyAuth
    \/ CheckCredits
    \/ Generate
    \/ Persist
    \/ Notify

\* ------------------------------------------------- the identity of a request

\* The requests that can arrive, with the user_id field of the form that
\* create_image reads: a header that is absent, empty or names a user, a
\* peer that is unknown or has an address, a form with or without user_id.
FormArrivals ==
    [header : {NoValue, "", "u1", "u2"},
     client : {NoValue, "h1", "h2"},
     user_id : {NoValue, "u1", "u2"}]

\* dispatch, lines 27-39: the key the request is counted under, the
\* decision, and the map afterwards.
Admission(reqs, q, current_time) ==
    LET user_id == UserId(q)
        limited == IsRateLimited(reqs, user_id, current_time)
        counted == UserRequests(reqs, user_id, current_time)
        pruned  == Store(reqs, user_id, counted)
    IN  [q |-> q, key |-> user_id, allowed |-> ~limited,
         requests |-> IF limited THEN pruned
                      ELSE Store(pruned, user_id, Append(counted, current_time))]

InitMeter == meter = << >>

\* A first request is dispatched into the empty map.
MeterFirst ==
    /\ meter = << >>
    /\ \E q \in FormArrivals : meter' = <<Admission(<< >>, q, 0)>>
    /\ UNCHANGED <<serverVars, call, job, roundtrip, disk>>

\* A second request is dispatched at the same instant.
MeterSecond ==
    /\ Len(meter) = 1
    /\ \E q \in FormArrivals :
         meter' = Append(meter, Admission(meter[1].requests, q, 0))
    /\ UNCHANGED <<serverVars, call, job, roundtrip, disk>>

NextMeter ==
    \/ MeterFirst
    \/ MeterSecond

\* --------------------------------------------------------------- save_image

\* The values of the bytes of an image.
ByteValues == {0, 1, 65, 254, 255}

RECURSIVE SeqsOf(_, _)
SeqsOf(values, len) ==
    IF len = 0 THEN {<< >>}
    ELSE {Append(seq, v) : seq \in SeqsOf(values, len - 1), v \in values}

\* The images: every sequence of at most MaxLen bytes.
Images == UNION {SeqsOf(ByteValues, len) : len \in 0..MaxLen}

\* The base64 alphabet: the character of each 6-bit value.
Alphabet ==
    <<
      "A", "B", "C", "D", "E", "F", "G", "H", "I", "J", "K", "L", "M",
      "N", "O", "P", "Q", "R", "S", "T", "U", "V", "W", "X", "Y", "Z",
      "a", "b", "c", "d", "e", "f", "g", "h", "i", "j", "k", "l", "m",
      "n", "o", "p", "q", "r", "s", "t", "u", "v", "w", "x", "y", "z",
      "0", "1", "2", "3", "4", "5", "6", "7", "8", "9", "+", "/" >>

Char(sextet) == Alphabet[sextet + 1]

Sextet(char) == (CHOOSE i \in 1..Len(Alphabet) : Alphabet[i] = char) - 1

\* base64 of the bytes, as the image service encodes them: 3 bytes make 4
\* characters, a last group of 1 or 2 bytes is padded with "=".
RECURSIVE B64Encode(_)
B64Encode(bytes) ==
    IF Len(bytes) = 0 THEN << >>
    ELSE IF Len(bytes) = 1 THEN
        <<Char(bytes[1] \div 4), Char((bytes[1] % 4) * 16), "=", "=">>
    ELSE IF Len(bytes) = 2 THEN
        LET n == (bytes[1] * 256 + bytes[2]) * 4
        IN  <<Char(n \div 4096), Char((n \div 64) % 64), Char(n % 64), "=">>
    ELSE
        LET n == bytes[1] * 65536 + bytes[2] * 256 + bytes[3]
        IN  <<Char(n \div 262144), Char((n \div 4096) % 64),
              Char((n \div 64) % 64), Char(n % 64)>>
                \o B64Encode(SubSeq(bytes, 4, Len(bytes)))

\* f"data:image/png;base64,{img_data}"
DataUrl(bytes) == <<"data:image/png;base64", ",">> \o B64Encode(bytes)

\* A URL under which a server answers with the bytes.
RemoteUrl == <<"http://img">>

\* image_url_or_data.split(",", 1): what follows the first comma.
Encoded(image_url_or_data) ==
    LET first == CHOOSE k \in 1..Len(image_url_or_data) :
                     /\ image_url_or_data[k] = ","
                     /\ \A i \in 1..(k - 1) : image_url_or_data[i] # ","
    IN  SubSeq(image_url_or_data, first + 1, Len(image_url_or_data))

\* Mutant of B64Decode: the padding is decoded as if it were data.
RECURSIVE B64DecodePadding(_)
B64DecodePadding(chars) ==
    IF Len(chars) < 4 THEN << >>
    ELSE LET value(c) == IF c = "=" THEN 0 ELSE Sextet(c)
             n == value(chars[1]) * 262144 + value(chars[2]) * 4096
                    + value(chars[3]) * 64 + value(chars[4])
         IN  <<n \div 65536, (n \div 256) % 256, n % 256>>
                \o B64DecodePadding(SubSeq(chars, 5, Len(chars)))

\* base64.b64decode: 4 characters make 3 bytes, a group that ends in "=="
\* makes 1 and a group that ends in "=" makes 2.
RECURSIVE B64Decode(_)
B64Decode(chars) ==
    IF Len(chars) < 4 THEN << >>
    ELSE IF chars[3] = "=" THEN
        <<(Sextet(chars[1]) * 64 + Sextet(chars[2])) \div 16>>
    ELSE IF chars[4] = "=" THEN
        LET n == (Sextet(chars[1]) * 4096 + Sextet(chars[2]) * 64
                    + Sextet(chars[3])) \div 4
        IN  <<n \div 256, n % 256>>
    ELSE
        LET n == Sextet(chars[1]) * 262144 + Sextet(chars[2]) * 4096
                    + Sextet(chars[3]) * 64 + Sextet(chars[4])
        IN  <<n \div 65536, (n \div 256) % 256, n % 256>>
                \o B64Decode(SubSeq(chars, 5, Len(chars)))

\* save_image, lines 74-84: the bytes written to the file, from a data URL
\* or from the body the download returned.
Written(image_url_or_data, served) ==
    IF image_url_or_data[1] = "data:image/png;base64"
    THEN B64Decode(Encoded(image_url_or_data))
    ELSE served

NotStored == [stored |-> FALSE, content |-> << >>]

InitRoundtrip ==
    roundtrip = [pc |-> "idle", bytes |-> << >>,
                 inline |-> NotStored, remote |-> NotStored]

\* The provider has made an image.
Produce ==
    /\ roundtrip.pc = "idle"
    /\ \E bytes \in Images :
         roundtrip' = [roundtrip EXCEPT !.pc = "made", !.bytes = bytes]
    /\ UNCHANGED <<serverVars, call, job, meter, disk>>

\* save_image of the image given as a data URL.
SaveInline ==
    /\ roundtrip.pc = "made"
    /\ ~roundtrip.inline.stored
    /\ roundtrip' = [roundtrip EXCEPT !.inline =
           [stored |-> TRUE,
            content |-> Written(DataUrl(roundtrip.bytes), roundtrip.bytes)]]
    /\ UNCHANGED <<serverVars, call, job, meter, disk>>

\* save_image of the image given as a URL that serves the bytes.
SaveRemote ==
    /\ roundtrip.pc = "made"
    /\ ~roundtrip.remote.stored
    /\ roundtrip' = [roundtrip EXCEPT !.remote =
           [stored |-> TRUE,
            content |-> Written(RemoteUrl, roundtrip.bytes)]]
    /\ UNCHANGED <<serverVars, call, job, meter, disk>>

NextRoundtrip ==
    \/ Produce
    \/ SaveInline
    \/ SaveRemote

\* ------------------------------------------------------- the media directory

\* The user_id and catalog_id fields of the form, character by character.
UserIds == {<<"u">>, <<"u", "_", "c">>}

CatalogIds == {<<"c">>, <<"c", "_", "c">>}

\* The clock of the directory counts half seconds; int(time.time()) drops
\* the fraction.
IntTime(now) == now \div 2

\* f"{user_id}_{catalog_id}_{int(time.time())}.png"
Filename(user_id, catalog_id, now) ==
    user_id \o <<"_">> \o catalog_id \o <<"_", ToString(IntTime(now)), ".png">>

\* open(filepath, "wb") and write: the file is created or replaced.
WriteFile(files, filepath, content) ==
    [f \in (DOMAIN files) \cup {filepath} |->
        IF f = filepath THEN content ELSE files[f]]

NoFile == << >>

InitDisk ==
    disk = [now |-> 0, media |-> << >>,
            jobs |-> [r \in RequestIds |-> [pc |-> "idle", filename |-> NoFile]]]

\* Half a second passes.
DiskTick ==
    /\ disk.now < MaxTicks
    /\ disk' = [disk EXCEPT !.now = @ + 1]
    /\ UNCHANGED <<serverVars, call, job, meter, roundtrip>>

\* Line 225: a request that has its generated image names the file.
NameFile(r) ==
    /\ disk.jobs[r].pc = "idle"
    /\ \E user_id \in UserIds, catalog_id \in CatalogIds :
         disk' = [disk EXCEPT !.jobs[r] =
                    [pc |-> "named",
                     filename |-> Filename(user_id, catalog_id, disk.now)]]
    /\ UNCHANGED <<serverVars, call, job, meter, roundtrip>>

\* Lines 226-227, after the awaits of save_image: the request writes its
\* image, and its response will name the file.
StoreFile(r) ==
    /\ disk.jobs[r].pc = "named"
    /\ disk' = [disk EXCEPT !.jobs[r].pc = "stored",
                            !.media = WriteFile(@, disk.jobs[r].filename, r)]
    /\ UNCHANGED <<serverVars, call, job, meter, roundtrip>>

NextDisk ==
    \/ DiskTick
    \/ \E r \in RequestIds : NameFile(r)
    \/ \E r \in RequestIds : StoreFile(r)

Init ==
    /\ InitServer /\ InitClient /\ InitPipeline
    /\ InitMeter /\ InitRoundtrip /\ InitDisk

Next ==
    \/ Tick
    \/ \E r \in RequestIds : Dispatch(r)
    \/ \E r \in RequestIds : CallNext(r)

Spec == Init /\ [][Next]_vars

SpecClient == Init /\ [][NextClient]_vars

\* The event loop resumes the coroutine: a session whose total timeout is
\* 30 seconds ends every attempt, and asyncio.sleep ends every delay.
SpecClientFair == SpecClient /\ WF_vars(Attempt) /\ WF_vars(Wake)

SpecPipeline == Init /\ [][NextPipeline]_vars

SpecMeter == Init /\ [][NextMeter]_vars

SpecRoundtrip == Init /\ [][NextRoundtrip]_vars

SpecDisk == Init /\ [][NextDisk]_vars

\* ------------------------------------------------- admission control claims

\* The timestamps of `times` that are less than 60 seconds old at `now`.
Within(times, now) ==
    SelectSeq(times, LAMBDA t : now - t < WindowSeconds)

\* How many times `t` occurs in `times`.
Occurrences(times, t) ==
    Len(SelectSeq(times, LAMBDA x : x = t))

\* The instants at which a request of the identity was admitted.
Instants(times) == {times[k] : k \in 1..Len(times)}

\* C1: at every instant and for every identity, the admitted requests whose
\* timestamp is less than 60 seconds old number at most requests_per_minute.
C1_WindowNeverOverCeiling ==
    \A i \in Identities :
        Len(Within(admitted[i], clock)) <= requests_per_minute

\* C1 witness: an identity with a full window that has already been through
\* an earlier full window.
C1_Witness ==
    \E i \in Identities :
        /\ Len(Within(admitted[i], clock)) = requests_per_minute
        /\ Len(admitted[i]) > requests_per_minute

\* C2: of the requests of one identity that arrive at the same instant at most
\* requests_per_minute are admitted; the check counts exactly the identity's
\* own admitted timestamps of the window, so an identity under its ceiling is
\* admitted whatever the other identities send; and the timestamp of an
\* admitted request is in the list as soon as the check has passed.
C2_SimultaneousRequests ==
    /\ \A i \in Identities : \A t \in Instants(admitted[i]) :
           Occurrences(admitted[i], t) <= requests_per_minute
    /\ last.decided => last.counted = Within(last.prior, last.now)
    /\ (last.decided /\ Len(Within(last.prior, last.now)) < requests_per_minute)
           => last.allowed
    /\ (last.decided /\ last.allowed) =>
           /\ last.user_id \in DOMAIN requests
           /\ requests[last.user_id] = Append(last.counted, last.now)

\* C2 witness: an identity is refused at an instant at which it already has
\* requests_per_minute admissions, while another identity was admitted at the
\* same instant and a request is still in flight.
C2_Witness ==
    /\ last.decided /\ ~last.allowed
    /\ Occurrences(admitted[last.user_id], last.now) = requests_per_minute
    /\ \E j \in Identities \ {last.user_id} : Occurrences(admitted[j], last.now) > 0
    /\ \E r \in RequestIds : req[r].pc = "call_next"

\* C3: a request is admitted exactly when fewer than requests_per_minute of
\* the identity's earlier admitted requests are less than 60 seconds old.
C3_AdmittedIffBelowCeiling ==
    last.decided =>
        (last.allowed <=> Len(Within(last.prior, last.now)) < requests_per_minute)

\* C3 witness: a request admitted although the identity had used its whole
\* ceiling before, because those timestamps have aged out of the window.
C3_Witness ==
    /\ last.decided /\ last.allowed
    /\ Len(last.prior) >= requests_per_minute
    /\ Within(last.prior, last.now) = <<>>

\* Whether the check counted a request admitted at `t`.
Counted(t) == \E k \in 1..Len(last.counted) : last.counted[k] = t

\* C4 as claimed: of the earlier admitted requests, the check counts exactly
\* those admitted at most 60 seconds before it, the one admitted exactly 60
\* seconds before included.
C4_HalfOpenWindow ==
    last.decided =>
        \A k \in 1..Len(last.prior) :
            LET t == last.prior[k]
            IN  t < last.now => (Counted(t) <=> t >= last.now - WindowSeconds)

\* C5: a refused request is answered 429 with the ceiling in the message, is
\* never handed to call_next, and no backend call, provider invocation or
\* artifact write is made for it.
C5_RejectedNeverReachesPipeline ==
    /\ (last.decided /\ ~last.allowed) => last.status = 429
    /\ last.status = 429 =>
           /\ last.decided /\ ~last.allowed
           /\ last.maximum = requests_per_minute
           /\ ~last.handled
           /\ last.backend_calls = 0
           /\ last.provider_calls = 0
           /\ last.artifact_writes = 0
    /\ \A r \in RequestIds : req[r].pc = "call_next" => req[r].status # 429

\* C5 witness: a request refused while another one is in its handler.
C5_Witness ==
    /\ last.status = 429
    /\ \E r \in RequestIds : req[r].pc = "call_next"

\* ---------------------------------------------------- backend client claims

\* An exception before any response, or a response whose transfer broke off.
TransportFailure(outcome) ==
    \/ outcome.exc \in {"ClientError", "TimeoutError"}
    \/ outcome.exc = NoValue /\ outcome.body = "cut"

\* A response that arrived whole.
Received(outcome) == outcome.exc = NoValue /\ outcome.body # "cut"

Attempts == Len(call.outcomes)

\* C6: connection errors on attempts 1 and 2 and a 200 on attempt 3: the call
\* returns the body of the third response after exactly 3 attempts and
\* exactly 2 delays, 1 then 2, the second greater than the first.
C6_TwoFailuresThenSuccess ==
    ( /\ Attempts = 3
      /\ call.outcomes[1].exc = "ClientError"
      /\ call.outcomes[2].exc = "ClientError"
      /\ Received(call.outcomes[3])
      /\ call.outcomes[3].status = 200 )
    => /\ call.pc = "returned"
       /\ call.result = ReadBody(call.outcomes[3].body).value
       /\ call.attempt = 2
       /\ call.sleeps = <<1, 2>>
       /\ call.sleeps[2] > call.sleeps[1]

\* C6 witness: such a call has returned a JSON object.
C6_Witness ==
    /\ Attempts = 3
    /\ call.outcomes[1].exc = "ClientError"
    /\ call.outcomes[2].exc = "ClientError"
    /\ call.outcomes[3].status = 200
    /\ call.outcomes[3].body = "json_detail"
    /\ call.pc = "returned"

\* C7 as claimed: when the first attempt receives a 4xx or 5xx response, the
\* call returns after that one attempt, without any delay, whatever the body.
C7_ErrorResponseNeverRetried ==
    ( /\ Attempts >= 1
      /\ Received(call.outcomes[1])
      /\ call.outcomes[1].status >= 400 )
    => /\ Attempts = 1
       /\ call.sleeps = <<>>
       /\ call.pc = "returned"

\* C8 as claimed: every delay, and so every further attempt, follows a
\* transport-level failure.
C8_RetryOnlyOnTransportFailure ==
    \A k \in 1..Len(call.sleeps) : TransportFailure(call.outcomes[k])

\* The category the claim gives a status ("none": the claim gives a 2xx
\* status other than 200 no category).
ClaimedCategory(status) ==
    CASE status = 200 -> "success"
      [] status = 401 -> "unauthorized"
      [] status = 403 -> "forbidden"
      [] status = 404 -> "not-found"
      [] status >= 500 -> "backend-fault"
      [] status \in 200..299 /\ status # 200 -> "none"
      [] OTHER -> "unclassified-backend-error"

\* The category of a returned value.
CategoryOf(result) ==
    IF result.message = NoMessage THEN "success"
    ELSE CASE result.error = "Unauthorized" -> "unauthorized"
           [] result.error = "Forbidden" -> "forbidden"
           [] result.error = "Not Found" -> "not-found"
           [] result.error = "Backend Server Error" -> "backend-fault"
           [] OTHER -> "unclassified-backend-error"

\* C9 as claimed: every response received ends the call with a value of the
\* category the claim gives its status, and every value other than a success
\* carries the status and a message.
C9_EveryStatusClassified ==
    \A k \in 1..Attempts :
        Received(call.outcomes[k]) =>
            /\ k = Attempts
            /\ call.pc = "returned"
            /\ CategoryOf(call.result) = ClaimedCategory(call.outcomes[k].status)
            /\ call.outcomes[k].status # 200 =>
                   /\ call.result.status = call.outcomes[k].status
                   /\ call.result.message # NoMessage

\* C10 as claimed: the call raises only when all 3 attempts ended in a
\* connectivity failure.
C10_RaisesOnlyWhenUnreachable ==
    call.pc = "raised" =>
        /\ Attempts = max_retries
        /\ \A k \in 1..Attempts : TransportFailure(call.outcomes[k])

\* ------------------------------------------------------- create_image claims

Called(name) == \E k \in 1..Len(job.calls) : job.calls[k] = name

\* The audit records of the request that have the given outcome.
Records(status) == SelectSeq(job.audit, LAMBDA record : record.status = status)

\* The request has neither a file nor a URL for one of its sides.
MissingSide(form) ==
    \/ form.user_image = NoValue /\ form.user_image_url = NoValue
    \/ form.catalog_image = NoValue /\ form.catalog_image_url = NoValue

\* C11 as claimed: a request that has neither a file nor a URL for a side
\* ends with a 400, and no backend call and no provider call is made for it.
C11_MissingInputIs400 ==
    (job.pc # "inputs" /\ MissingSide(job.form)) =>
        /\ job.pc = "done"
        /\ job.responses = <<HTTPException(400)>>
        /\ job.calls = <<>>

\* verify_auth returned the backend's 200 answer as it came.
AuthSucceeded ==
    /\ job.auth_result.exc = NoValue
    /\ job.auth_result.value.is_dict
    /\ job.auth_result.value.message = NoMessage

\* C12 as claimed: check_credits and the provider are called only after
\* verify_auth returned a success; after any other outcome of verify_auth
\* the request ends in the auth stage.
C12_AuthNeverPartiallyTrusted ==
    /\ (Called("check_credits") \/ Called("generate_image")) => AuthSucceeded
    /\ (Called("verify_auth") /\ ~AuthSucceeded) =>
           job.pc = "done" /\ job.calls = <<"verify_auth">>

\* check_credits returned a dict that does not grant credits.
CreditsInsufficient ==
    /\ job.credits_result.exc = NoValue
    /\ job.credits_result.value.is_dict
    /\ \/ job.credits_result.value.status = 403
       \/ job.credits_result.value.error = "Forbidden"
       \/ job.has_credits # "true"

\* C13: the provider is called only after check_credits returned a dict
\* whose has_credits is true; a 403 or Forbidden decision, and a has_credits
\* that is false or absent, end the request with 403 before the provider,
\* the artifact write and the webhook.
C13_ProviderOnlyWithCredits ==
    /\ (Called("get_ai_provider") \/ Called("generate_image")) =>
           /\ job.credits_result.exc = NoValue
           /\ job.has_credits = "true"
    /\ CreditsInsufficient =>
           /\ job.pc = "done"
           /\ job.responses = <<HTTPException(403)>>
           /\ ~Called("generate_image") /\ ~Called("save_image")
           /\ ~Called("send_webhook")
           /\ job.media = {}

\* C13 witness: a 200 answer with has_credits false was refused with 403.
C13_Witness ==
    /\ job.credits_result.exc = NoValue
    /\ job.credits_result.value.is_dict
    /\ job.credits_result.value.message = NoMessage
    /\ job.has_credits = "false"
    /\ job.responses = <<HTTPException(403)>>

\* The one response of the request, once it is sent.
Response == job.responses[1]

\* C14: when verify_auth or check_credits raises after its last attempt, the
\* request ends with 503 and exactly one audit record, an error, and no
\* later stage runs.
C14_BackendUnreachableIs503 ==
    /\ job.auth_result.exc = "Exception" =>
           /\ job.pc = "done"
           /\ job.responses = <<HTTPException(503)>>
           /\ Len(job.audit) = 1 /\ job.audit[1].status = "error"
           /\ job.calls = <<"verify_auth">>
    /\ job.credits_result.exc = "Exception" =>
           /\ job.pc = "done"
           /\ job.responses = <<HTTPException(503)>>
           /\ Len(job.audit) = 1 /\ job.audit[1].status = "error"
           /\ job.calls = <<"verify_auth", "check_credits">>
    /\ (job.auth_result.exc = "Exception" \/ job.credits_result.exc = "Exception")
           => job.tmp_files = {} /\ job.media = {}

\* C14 witness: check_credits raised after verify_auth had succeeded.
C14_Witness ==
    /\ AuthSucceeded
    /\ job.credits_result.exc = "Exception"
    /\ job.responses = <<HTTPException(503)>>

\* C15: when send_webhook raises after generation and persistence succeeded,
\* the response is still the success with its image_url, one warning record
\* is written besides the success record, and no error record and no error
\* status.
C15_WebhookFailureIsWarning ==
    job.webhook_result.exc = "Exception" =>
        /\ job.pc = "done"
        /\ Len(job.responses) = 1
        /\ Response.status_code = 200
        /\ Response.status = "success"
        /\ Response.image_url \in job.media
        /\ Len(Records("warning")) = 1
        /\ Len(Records("success")) = 1
        /\ Len(Records("error")) = 0
        /\ Len(job.audit) = 2

\* C15 witness: the webhook raised and the request was answered.
C15_Witness ==
    /\ job.webhook_result.exc = "Exception"
    /\ job.pc = "done"
    /\ Called("save_image")
    /\ job.audit[1].status = "warning"

\* C16 as claimed: every finished request has exactly one response and
\* exactly one primary audit record, an error when the response is an error
\* and a success otherwise, and at most one warning, written only when the
\* webhook failed.
C16_OnePrimaryRecord ==
    job.pc = "done" =>
        /\ Len(job.responses) = 1
        /\ Len(Records("error")) + Len(Records("success")) = 1
        /\ Len(Records("error")) = 1 <=> Response.status_code # 200
        /\ Len(Records("warning")) <= 1
        /\ Len(Records("warning")) = 1 => job.webhook_result.exc = "Exception"

\* The provider named by the configuration is not in the table, has no
\* implementation, or lacks the API key it reads.
Misconfigured(config) ==
    \/ Lower(config.AI_PROVIDER) \notin {"openai", "gemini", "sora", "stability"}
    \/ Lower(config.AI_PROVIDER) \in {"sora", "stability"}
    \/ Lower(config.AI_PROVIDER) \in {"openai", "gemini"} /\ ~config.api_key

\* C17 as claimed: when the configured provider is unknown, unimplemented
\* or without its credentials, the generate stage ends the request with 500
\* and an audit record on the 'Configuration error' message path.
C17_MisconfigurationIsConfigurationError ==
    (job.config # NoConfig /\ Misconfigured(job.config)) =>
        /\ job.pc = "done"
        /\ job.responses = <<HTTPException(500)>>
        /\ job.audit = <<LogRequest("error", "Configuration error")>>

\* C18 as claimed: in the persist stage every failed fetch of the generated
\* image ends the request with 502 and every other failure with 500.
C18_FetchFailureIs502 ==
    /\ job.fetch \in {"bad_status", "ClientError"} =>
           job.responses = <<HTTPException(502)>>
    /\ job.saved \in {"binascii.Error", "OSError"} =>
           job.responses = <<HTTPException(500)>>

\* The statuses create_image answers an error with.
ErrorStatuses == {400, 401, 403, 500, 502, 503}

\* C19: a finished request has the success response or an error response
\* with a status in {400, 401, 403, 500, 502, 503}; an exception no stage
\* handles is logged once as an error at the outer boundary and answered
\* with 500; an error a stage has classified is not logged again there.
C19_NothingEscapesUnclassified ==
    /\ Len(job.responses) = (IF job.pc = "done" THEN 1 ELSE 0)
    /\ job.pc = "done" =>
           \/ Response = GenerateResponse(ImageUrl, Response.latency_ms)
           \/ Response \in {HTTPException(code) : code \in ErrorStatuses}
    /\ job.escaped # NoValue =>
           /\ job.responses = <<HTTPException(500)>>
           /\ job.audit = <<LogRequest("error", "Unexpected error")>>
    /\ (job.pc = "done" /\ job.escaped = NoValue) =>
           /\ Len(Records("error")) <= 1
           /\ \A k \in 1..Len(job.audit) : job.audit[k].error # "Unexpected error"

\* C19 witness: verify_auth returned a JSON array, and the AttributeError of
\* auth_result.get reached the outer boundary.
C19_Witness ==
    /\ job.escaped = "AttributeError"
    /\ Called("verify_auth")
    /\ job.pc = "done"

\* ------------------------------------------------------------- probe claims

\* The request served in this step is the one the last decision admitted.
ServesTheAdmitted(path_response) ==
    /\ last.decided /\ last.allowed
    /\ Cardinality({r \in RequestIds : req[r].pc = "call_next"}) = 1
    /\ last' = path_response

\* C20 as claimed: serving GET / or GET /health changes no state: when the
\* probe has been answered, the window of the identity it came from holds
\* what it held when the probe arrived, expired entries aside.
C20_ProbesHaveNoSideEffects ==
    [][ServesTheAdmitted(Probe) =>
            Lookup(requests', last.user_id) = last.counted]_vars

\* ----------------------------------------------------------- identity claims

\* The user identifiers a request declares: its X-User-ID header and the
\* user_id field of its form.
DeclaredIds(q) == {q.header, q.user_id} \ {NoValue, ""}

\* C21 as claimed: a request that declares a user identifier is counted
\* under it and any other under its source address, and two requests that
\* declare the same user_id are counted under the same key whatever their
\* source addresses.
C21_IdentityIsDeclaredUser ==
    /\ \A k \in 1..Len(meter) :
          IF DeclaredIds(meter[k].q) # {}
          THEN meter[k].key \in DeclaredIds(meter[k].q)
          ELSE meter[k].key = ClientId(meter[k].q)
    /\ (Len(meter) = 2 /\ meter[1].q.user_id # NoValue
                       /\ meter[1].q.user_id = meter[2].q.user_id)
           => meter[1].key = meter[2].key

\* --------------------------------------------------------- save_image claims

\* C22: the file save_image writes from the base64 data URL of an image and
\* the file it writes from a URL that serves the image both hold exactly
\* the bytes of the image.
C22_SaveImageRoundTrip ==
    /\ roundtrip.inline.stored => roundtrip.inline.content = roundtrip.bytes
    /\ roundtrip.remote.stored => roundtrip.remote.content = roundtrip.bytes
    /\ (roundtrip.inline.stored /\ roundtrip.remote.stored) =>
           roundtrip.inline.content = roundtrip.remote.content

\* C22 witness: an image whose last base64 group is padded was stored both
\* ways.
C22_Witness ==
    /\ roundtrip.inline.stored /\ roundtrip.remote.stored
    /\ Len(roundtrip.bytes) = 2
    /\ roundtrip.inline.content = <<254, 255>>

\* -------------------------------------------------- further pipeline claims

\* send_webhook raised, or returned a decision that is no success.
NotifyFailed ==
    \/ job.webhook_result.exc = "Exception"
    \/ /\ job.webhook_result.exc = NoValue
       /\ job.webhook_result.value.message # NoMessage

\* C23 as claimed: whenever send_webhook raises or returns a decision that
\* is no success, one warning record is written and the response is the
\* success with the artifact path.
C23_NotifyFailureIsWarning ==
    NotifyFailed =>
        /\ job.pc = "done"
        /\ Len(Records("warning")) = 1
        /\ Len(job.responses) = 1
        /\ Response.status = "success"
        /\ Response.image_url \in job.media

\* The operations of a request, in the order of the stages.
StageOrder ==
    <<"verify_auth", "check_credits", "get_ai_provider", "generate_image",
      "save_image", "send_webhook">>

\* The operations were called in the order of the stages, each at most once.
InStageOrder == job.calls = SubSeq(StageOrder, 1, Len(job.calls))

\* Every operation called follows the success of the stage before it, auth
\* aside.
AfterSuccess ==
    /\ Called("get_ai_provider") =>
           job.credits_result.exc = NoValue /\ job.has_credits = "true"
    /\ Called("save_image") => job.generated # NoValue
    /\ Called("send_webhook") => job.media = {ImageUrl}

\* The webhook carries the image path and the latency of the response.
WebhookMatchesResponse ==
    (Called("send_webhook") /\ job.pc = "done") =>
        /\ job.webhook.image_url = Response.image_url
        /\ job.webhook.latency_ms = Response.latency_ms

\* C24 as claimed: the operations of a request are called in the order
\* auth, credits, generate, persist, notify, each at most once, each only
\* after every earlier stage succeeded, and the webhook is sent after the
\* artifact is stored, with the image path and latency of the response.
C24_StagesInOrder ==
    /\ InStageOrder
    /\ Called("check_credits") => AuthSucceeded
    /\ AfterSuccess
    /\ WebhookMatchesResponse

\* The file whose own unlink failed.
UnlinkFailed ==
    IF job.unlink = "user_fails" THEN {"tmp_user"}
    ELSE IF job.unlink = "catalog_fails" THEN {"tmp_catalog"}
    ELSE {}

\* C25 as claimed: when the generate stage is over, no temporary file of
\* the request exists but one whose removal failed, however the stage went.
C25_TempFilesReleased ==
    job.pc \in {"persist", "notify", "done"} => job.tmp_files \subseteq UnlinkFailed

\* ------------------------------------------------------------- sweep claims

\* This step is a dispatch: it takes an admission decision.
DispatchStep == last'.decided /\ clock' = clock

\* More than 60 seconds have passed since the last sweep.
SweepDue == clock - last_cleanup > cleanup_interval

\* No key of the map has an empty window or a timestamp 60 seconds old.
AllRecent(reqs, now) ==
    \A id \in DOMAIN reqs :
        /\ reqs[id] # << >>
        /\ \A k \in 1..Len(reqs[id]) : now - reqs[id][k] < WindowSeconds

\* C26: a request that arrives more than 60 seconds after the last sweep is
\* decided on the swept map; right after the sweep, and after the request
\* is recorded, every identity in the map has a non-empty window of
\* timestamps less than 60 seconds old; and the decision of every identity
\* is the one lazy pruning alone gives, swept or not.
C26_SweepBeforeDecision ==
    [][DispatchStep =>
          /\ SweepDue =>
                /\ last_cleanup' = clock
                /\ AllRecent(CleanupOldEntries(requests, clock), clock)
                /\ AllRecent(requests', clock)
                /\ last'.counted =
                       UserRequests(CleanupOldEntries(requests, clock),
                                    last'.user_id, clock)
          /\ last'.allowed = ~IsRateLimited(requests, last'.user_id, clock)
          /\ \A id \in Identities :
                IsRateLimited(CleanupOldEntries(requests, clock), id, clock)
                    = IsRateLimited(requests, id, clock)]_vars

\* C26 witness: a sweep has just run and has evicted an identity that had
\* been admitted before.
C26_Witness ==
    /\ last.decided
    /\ last_cleanup = last.now /\ last_cleanup > 0
    /\ \E id \in Identities : admitted[id] # << >> /\ id \notin DOMAIN requests

\* ------------------------------------------------------- termination claims

\* The call is over: it has returned or raised.
Over == call.pc \in {"returned", "raised"}

\* Every attempt made so far failed.
AllFailed ==
    \A k \in 1..Attempts : TryOnce(call.outcomes[k], call.endpoint).exc # NoValue

\* C27: a call of _request makes at most 3 attempts and at most 2 delays, 1
\* then 2, none after the last attempt; it raises when all 3 attempts
\* failed; and every call that was started is over at some point.
C27_RequestTerminates ==
    /\ [](/\ Attempts <= 3
          /\ call.sleeps = SubSeq(<<1, 2>>, 1, Len(call.sleeps))
          /\ Len(call.sleeps) <= Attempts
          /\ Over => Len(call.sleeps) = Attempts - 1
          /\ (Attempts = 3 /\ AllFailed) => call.pc = "raised"
          /\ Attempts = 3 => Over)
    /\ (call.pc # "idle") ~> Over

\* C27 witness: all 3 attempts failed and the call raised after 2 delays.
C27_Witness ==
    /\ call.pc = "raised"
    /\ Attempts = 3
    /\ call.sleeps = <<1, 2>>

\* ---------------------------------------------------------- artifact claims

\* C28 as claimed: the file named in the response of a request holds the
\* image written for that request, whatever other requests do.
C28_ArtifactKeepsContent ==
    \A r \in RequestIds :
        disk.jobs[r].pc = "stored" => disk.media[disk.jobs[r].filename] = r

\* ------------------------------------------------------- rejection claims

\* C29: a rejected request leaves in its identity's window the timestamps
\* that have not expired and adds none, and is not among the admitted; so a
\* request is admitted exactly when fewer than the ceiling of the identity's
\* admitted requests are still in the window, however many were rejected
\* meanwhile.
C29_RejectedNotRecorded ==
    [][DispatchStep =>
          /\ ~last'.allowed =>
                /\ Lookup(requests', last'.user_id)
                       = Within(Lookup(requests, last'.user_id), clock)
                /\ admitted' = admitted
          /\ last'.allowed <=>
                Len(Within(admitted[last'.user_id], clock)) < requests_per_minute]_vars

\* C29 witness: a request was rejected and the window holds what it held.
C29_Witness ==
    /\ last.decided /\ ~last.allowed
    /\ Len(Lookup(requests, last.user_id)) = requests_per_minute
    /\ Lookup(requests, last.user_id) = Within(admitted[last.user_id], clock)
    /\ clock > 0

====
